---- MODULE Spec2Model ----
(***************************************************************************)
(* Model of the chat-completion stream consumer of                         *)
(* src/src/openrouter_client.rs (handle_openrouter_response): Spec; and of  *)
(* main with the three phases that call it (src/src/main.rs,               *)
(* src/src/exa_client.rs): Main.                                           *)
(*                                                                         *)
(* Text is a sequence of tokens.  A token is one character (" ", "\n",     *)
(* "\r", "{", "}") or one indivisible piece of the wire text:              *)
(*   "data:"   the five characters d a t a :                               *)
(*   "[DONE]"  the six characters of the sentinel                          *)
(*   "x", "y"  inside a record: one element of "choices" whose             *)
(*             delta.content is the text x (resp. y)                       *)
(*   "n"       inside a record: one element of "choices" whose delta has   *)
(*             no content                                                  *)
(*   "u", "v"  inside a record: a "usage" member (two different reports)   *)
(*   "e"       inside a record: an "error" member                          *)
(*   "#"       any other text                                              *)
(* A record payload is "{" members "}" ; the array brackets of "choices"   *)
(* are part of the opening and closing brace tokens.                       *)
(***************************************************************************)
EXTENDS Naturals, Sequences, FiniteSets, TLC

\* ------------------------------------------------------------------ bounds
\* Items of one whole-line byte stream, and lines held by all its chunks.
MaxChunks == 3
MaxLines == 2
\* Records of one document that is cut at arbitrary tokens, and its cuts.
MaxEvents == 2
MaxCuts == 1
\* Results of one Exa search.
MaxResults == 2

\* ------------------------------------------------------------- text helpers
Whitespace == {" ", "\n", "\r", "\t"}

\* str::starts_with
StartsWith(s, p) ==
    /\ Len(s) >= Len(p)
    /\ SubSeq(s, 1, Len(p)) = p

RECURSIVE TrimStart(_)
TrimStart(s) ==
    IF s # <<>> /\ Head(s) \in Whitespace THEN TrimStart(Tail(s)) ELSE s

RECURSIVE TrimEnd(_)
TrimEnd(s) ==
    IF s # <<>> /\ s[Len(s)] \in Whitespace
    THEN TrimEnd(SubSeq(s, 1, Len(s) - 1))
    ELSE s

\* str::trim
Trim(s) == TrimEnd(TrimStart(s))

\* One line of str::lines: a piece of split_inclusive('\n') with its "\n",
\* and then one "\r" before it, stripped.
StripLineEnding(piece) ==
    IF piece # <<>> /\ piece[Len(piece)] = "\n"
    THEN LET body == SubSeq(piece, 1, Len(piece) - 1)
         IN  IF body # <<>> /\ body[Len(body)] = "\r"
             THEN SubSeq(body, 1, Len(body) - 1)
             ELSE body
    ELSE piece

\* Length of the first piece of split_inclusive('\n'): up to and including the
\* first "\n", or the whole text when it holds none.
RECURSIVE FirstPieceLen(_)
FirstPieceLen(text) ==
    IF text = <<>> THEN 0
    ELSE IF Head(text) = "\n" THEN 1
    ELSE 1 + FirstPieceLen(Tail(text))

\* str::lines
RECURSIVE Lines(_)
Lines(text) ==
    IF text = <<>> THEN <<>>
    ELSE LET k == FirstPieceLen(text)
         IN  <<StripLineEnding(SubSeq(text, 1, k))>>
                 \o Lines(SubSeq(text, k + 1, Len(text)))

\* Concatenation of a sequence of texts.
RECURSIVE Flatten(_)
Flatten(ss) == IF ss = <<>> THEN <<>> ELSE Head(ss) \o Flatten(Tail(ss))

\* --------------------------------------------------------- wire protocol
\* line.starts_with("data: ")
DataPrefix == <<"data:", " ">>

DoneSentinel == <<"[DONE]">>

ChoiceTokens == {"x", "y", "n"}
UsageTokens == {"u", "v"}
ErrorToken == "e"

NoUsage == "none"

\* A non-2xx status reads the body as text; a body that cannot be read gives
\* the placeholder.
BodyPlaceholder == <<"Unknown error reading response body">>

\* What an undecodable byte sequence becomes in a lossily decoded body.
ReplacementChar == "#"

\* A status check that lets every status but a server error through.
IsSuccess_NotServerError(status) == status >= 200 /\ status < 500

\* StatusCode::is_success
IsSuccess(status) == status >= 200 /\ status < 300

\* models::OpenRouterStreamDelta.content of one element of "choices":
\* Some(text) or None.
NoContent == <<>>
DeltaContent(tok) == IF tok = "n" THEN NoContent ELSE <<tok>>

\* serde_json::from_str::<OpenRouterStreamResponse>: whitespace between the
\* tokens is insignificant; the value is one object holding the required
\* "choices" array and then at most one "usage" and at most one "error"
\* member; anything else (no text at all, an unclosed object, other text, a
\* repeated member, text after the object) is an Err.
DecodeFailure == [ok |-> FALSE, choices |-> <<>>, usage |-> NoUsage, error |-> FALSE]
Decode(json_data) ==
    LET q == SelectSeq(json_data, LAMBDA c : c \notin Whitespace)
        n == Len(q)
        inner == SubSeq(q, 2, n - 1)
        cs == SelectSeq(inner, LAMBDA c : c \in ChoiceTokens)
        us == SelectSeq(inner, LAMBDA c : c \in UsageTokens)
        es == SelectSeq(inner, LAMBDA c : c = ErrorToken)
        wellFormed ==
            /\ n >= 2
            /\ q[1] = "{"
            /\ q[n] = "}"
            /\ inner = cs \o SelectSeq(inner, LAMBDA c : c \notin ChoiceTokens)
            /\ Len(cs) + Len(us) + Len(es) = Len(inner)
            /\ Len(us) <= 1
            /\ Len(es) <= 1
    IN  IF wellFormed
        THEN [ok |-> TRUE,
              choices |-> [i \in 1..Len(cs) |-> DeltaContent(cs[i])],
              usage |-> IF us = <<>> THEN NoUsage ELSE us[1],
              error |-> es # <<>>]
        ELSE DecodeFailure

\* ---------------------------------------------------------------- state
VARIABLES
    status,               \* response.status()
    stream,               \* the response body: the items bytes_stream() yields
    stream_to_stdout,     \* parameter: echo content to stdout
    stdout_ok,            \* environment: whether flushing stdout succeeds
    pc,                   \* "start", "next" (at byte_stream.next()), "lines"
                          \* (inside the for loop), "done" (returned); "idle"
                          \* before main has called the consumer
    pulled,               \* number of items byte_stream.next() has yielded
    chunk_lines,          \* lines of the current chunk not yet visited
    accumulated_content,
    final_usage_info,
    stdout,               \* text written to standard output
    stderr,               \* messages written to standard error
    spinner,              \* state of the progress indicator
    result                \* the value returned

\* The program around the consumer: main and the three phases it runs.
VARIABLES
    main_pc,              \* position in main
    env,                  \* the environment variables that are set
    user_query,           \* the line read from standard input, then trimmed
    requests,             \* the requests sent so far, in order
    search_keywords,      \* text returned by generate_search_keywords
    keyword_usage,        \* usage returned by generate_search_keywords
    exa_search_response,  \* results of the Exa /search call
    search_results_summary,
    exit                  \* what main returned

vars == <<status, stream, stream_to_stdout, stdout_ok, pc, pulled, chunk_lines,
          accumulated_content, final_usage_info, stdout, stderr, spinner, result,
          main_pc, env, user_query, requests, search_keywords, keyword_usage,
          exa_search_response, search_results_summary, exit>>

input == <<status, stream, stream_to_stdout, stdout_ok>>

\* The caller's state, which no step of handle_openrouter_response touches.
caller == <<main_pc, env, user_query, requests, search_keywords, keyword_usage,
            exa_search_response, search_results_summary, exit>>

\* Items of the byte stream.
Bytes(text) == [kind |-> "bytes", text |-> text]
InvalidUtf8 == [kind |-> "invalid_utf8", text |-> <<>>]
ReadError == [kind |-> "read_error", text |-> <<>>]

\* Values returned.
NoResult == [kind |-> "none", text |-> <<>>, usage |-> NoUsage, error |-> "", body |-> <<>>]
OkResult(text, usage) ==
    [kind |-> "Ok", text |-> text, usage |-> usage, error |-> "", body |-> <<>>]
ErrResult(error, body) ==
    [kind |-> "Err", text |-> <<>>, usage |-> NoUsage, error |-> error, body |-> body]

\* Messages on standard error.
InternalErrorWarning == <<"Oi, internal server error!">>
ParseWarning(trimmed) == <<"Warning: Failed to parse stream data chunk">> \o trimmed

\* response.text(): the whole body, decoded lossily; Err when a read fails.
RECURSIVE BodyText(_)
BodyText(items) ==
    IF items = <<>> THEN <<>>
    ELSE (IF Head(items).kind = "bytes" THEN Head(items).text ELSE <<ReplacementChar>>)
             \o BodyText(Tail(items))

BodyReadable(items) == \A i \in 1..Len(items) : items[i].kind # "read_error"

\* .text().await.unwrap_or_else(|_| placeholder)
ErrorBody(items) == IF BodyReadable(items) THEN BodyText(items) ELSE BodyPlaceholder

\* ------------------------------------------------------ the line handlers
\* A prefix test that does not ask for the space after the colon.
IsDataLine_NoSpace(line) == StartsWith(line, <<"data:">>)

\* line.starts_with("data: ")
IsDataLine(line) == StartsWith(line, DataPrefix)

\* &line[6..]
JsonData(line) == SubSeq(line, Len(DataPrefix) + 1, Len(line))

\* json_data.trim() == "[DONE]"
IsDone(json_data) == Trim(json_data) = DoneSentinel

\* A check that writes the message for the records that do carry an error
\* object, and applies only the others.
TakesWarningBranch_OnError(rec) == rec.error

\* The condition of the branch that only writes the internal-error message:
\* !stream_resp.error.is_some()
TakesWarningBranch(rec) == ~rec.error

\* if let Some(usage) = stream_resp.usage { final_usage_info = Some(usage) }
UsageAfter(usage, rec) == IF rec.usage # NoUsage THEN rec.usage ELSE usage

\* The content deltas taken from the last choice to the first.
RECURSIVE Fragments_Reversed(_)
Fragments_Reversed(choices) ==
    IF choices = <<>> THEN <<>>
    ELSE Fragments_Reversed(Tail(choices)) \o Head(choices)

\* The content deltas of a record's choices, in the order of the list.
Fragments(choices) == Flatten(choices)

\* for choice in choices { accumulated_content.push_str(&content_delta) }
ContentAfter(content, rec) == content \o Fragments(rec.choices)

\* The choices visited up to and including the first one holding content.
RECURSIVE UpToFirstContent(_)
UpToFirstContent(choices) ==
    IF choices = <<>> THEN <<>>
    ELSE IF Head(choices) # NoContent THEN <<Head(choices)>>
    ELSE <<Head(choices)>> \o UpToFirstContent(Tail(choices))

\* The lines left to visit after a line: the rest, or none after a break.
RestAfterLine(lines) == Tail(lines)
RestAfterDone(lines) == <<>>

\* Position after a line handler: the for loop goes on, or is over and the
\* while loop asks for the next chunk.
PcAfter(rest) == IF rest = <<>> THEN "next" ELSE "lines"

AtLine == pc = "lines" /\ chunk_lines # <<>>

\* --------------------------------------------------------------- actions
\* if !response.status().is_success() { ...; return Err(...) }
RequestFailed ==
    /\ pc = "start"
    /\ ~IsSuccess(status)
    /\ spinner' = "failed"
    /\ result' = ErrResult("RequestFailed", ErrorBody(stream))
    /\ pc' = "done"
    /\ UNCHANGED <<input, caller, pulled, chunk_lines, accumulated_content,
                   final_usage_info, stdout, stderr>>

\* let mut byte_stream = ...; accumulated_content = String::new(); ...
BeginStream ==
    /\ pc = "start"
    /\ IsSuccess(status)
    /\ accumulated_content' = <<>>
    /\ final_usage_info' = NoUsage
    /\ stdout' = IF stream_to_stdout THEN stdout \o <<"\n">> ELSE stdout
    /\ pc' = "next"
    /\ UNCHANGED <<input, caller, pulled, chunk_lines, stderr, spinner, result>>

\* The unfinished last line of the chunk before, kept and put in front of the
\* next chunk.
CarriedOver ==
    IF /\ pulled >= 1
       /\ stream[pulled].kind = "bytes"
       /\ stream[pulled].text # <<>>
       /\ stream[pulled].text[Len(stream[pulled].text)] # "\n"
    THEN Lines(stream[pulled].text)[Len(Lines(stream[pulled].text))]
    ELSE <<>>

NextChunk_Reassembling ==
    /\ pc = "next"
    /\ pulled < Len(stream)
    /\ stream[pulled + 1].kind = "bytes"
    /\ pulled' = pulled + 1
    /\ chunk_lines' = Lines(CarriedOver \o stream[pulled + 1].text)
    /\ pc' = IF chunk_lines' = <<>> THEN "next" ELSE "lines"
    /\ UNCHANGED <<input, caller, accumulated_content, final_usage_info, stdout,
                   stderr, spinner, result>>

\* byte_stream.next() yields Ok(bytes) that are valid UTF-8
NextChunk ==
    /\ pc = "next"
    /\ pulled < Len(stream)
    /\ stream[pulled + 1].kind = "bytes"
    /\ pulled' = pulled + 1
    /\ chunk_lines' = Lines(stream[pulled + 1].text)
    /\ pc' = PcAfter(chunk_lines')
    /\ UNCHANGED <<input, caller, accumulated_content, final_usage_info, stdout,
                   stderr, spinner, result>>

\* A read error that is logged and the read tried again.
ChunkReadFailed_Retrying ==
    /\ pc = "next"
    /\ pulled < Len(stream)
    /\ stream[pulled + 1].kind = "read_error"
    /\ stderr' = Append(stderr, <<"Error reading chunk, retrying">>)
    /\ UNCHANGED <<input, caller, pc, pulled, chunk_lines, accumulated_content,
                   final_usage_info, stdout, spinner, result>>

\* byte_stream.next() yields Err: item.context(...)?
ChunkReadFailed ==
    /\ pc = "next"
    /\ pulled < Len(stream)
    /\ stream[pulled + 1].kind = "read_error"
    /\ pulled' = pulled + 1
    /\ result' = ErrResult("ChunkReadFailed", <<>>)
    /\ pc' = "done"
    /\ UNCHANGED <<input, caller, chunk_lines, accumulated_content, final_usage_info,
                   stdout, stderr, spinner>>

\* Undecodable bytes decoded lossily instead of ending the call.
ChunkNotUtf8_Lossy ==
    /\ pc = "next"
    /\ pulled < Len(stream)
    /\ stream[pulled + 1].kind = "invalid_utf8"
    /\ pulled' = pulled + 1
    /\ chunk_lines' = <<>>
    /\ pc' = "next"
    /\ UNCHANGED <<input, caller, accumulated_content, final_usage_info, stdout,
                   stderr, spinner, result>>

\* std::str::from_utf8(&chunk).context(...)?
ChunkNotUtf8 ==
    /\ pc = "next"
    /\ pulled < Len(stream)
    /\ stream[pulled + 1].kind = "invalid_utf8"
    /\ pulled' = pulled + 1
    /\ result' = ErrResult("Encoding", <<>>)
    /\ pc' = "done"
    /\ UNCHANGED <<input, caller, chunk_lines, accumulated_content, final_usage_info,
                   stdout, stderr, spinner>>

\* An end of stream that takes an empty answer for a failure.
EndOfStream_EmptyIsError ==
    /\ pc = "next"
    /\ pulled = Len(stream)
    /\ stdout' = IF stream_to_stdout THEN stdout \o <<"\n">> ELSE stdout
    /\ result' = IF accumulated_content = <<>>
                 THEN ErrResult("EmptyResponse", <<>>)
                 ELSE OkResult(accumulated_content, final_usage_info)
    /\ pc' = "done"
    /\ UNCHANGED <<input, caller, pulled, chunk_lines, accumulated_content,
                   final_usage_info, stderr, spinner>>

\* An end of stream that takes a stream without the sentinel for a failure.
EndOfStream_RequiresDone ==
    /\ pc = "next"
    /\ pulled = Len(stream)
    /\ stdout' = IF stream_to_stdout THEN stdout \o <<"\n">> ELSE stdout
    /\ result' = IF \E i \in 1..Len(stream) : \E j \in 1..Len(stream[i].text) :
                        stream[i].text[j] = "[DONE]"
                 THEN OkResult(accumulated_content, final_usage_info)
                 ELSE ErrResult("Truncated", <<>>)
    /\ pc' = "done"
    /\ UNCHANGED <<input, caller, pulled, chunk_lines, accumulated_content,
                   final_usage_info, stderr, spinner>>

\* byte_stream.next() yields None: Ok((accumulated_content, final_usage_info))
EndOfStream ==
    /\ pc = "next"
    /\ pulled = Len(stream)
    /\ stdout' = IF stream_to_stdout THEN stdout \o <<"\n">> ELSE stdout
    /\ result' = OkResult(accumulated_content, final_usage_info)
    /\ pc' = "done"
    /\ UNCHANGED <<input, caller, pulled, chunk_lines, accumulated_content,
                   final_usage_info, stderr, spinner>>

\* A line without the prefix: neither branch of the else-if does anything.
SkipLine ==
    /\ AtLine
    /\ ~IsDataLine(Head(chunk_lines))
    /\ chunk_lines' = RestAfterLine(chunk_lines)
    /\ pc' = PcAfter(chunk_lines')
    /\ UNCHANGED <<input, caller, pulled, accumulated_content, final_usage_info,
                   stdout, stderr, spinner, result>>

\* if json_data.trim() == "[DONE]" { break; }
DoneLine ==
    /\ AtLine
    /\ IsDataLine(Head(chunk_lines))
    /\ IsDone(JsonData(Head(chunk_lines)))
    /\ chunk_lines' = RestAfterDone(chunk_lines)
    /\ pc' = PcAfter(chunk_lines')
    /\ UNCHANGED <<input, caller, pulled, accumulated_content, final_usage_info,
                   stdout, stderr, spinner, result>>

\* Err(e) => { if !trimmed_json_data.is_empty() { eprintln!(...) } }
UnparseableLine ==
    /\ AtLine
    /\ IsDataLine(Head(chunk_lines))
    /\ LET json_data == JsonData(Head(chunk_lines))
       IN  /\ ~IsDone(json_data)
           /\ ~Decode(json_data).ok
           /\ stderr' = IF Trim(json_data) # <<>>
                        THEN Append(stderr, ParseWarning(Trim(json_data)))
                        ELSE stderr
    /\ chunk_lines' = RestAfterLine(chunk_lines)
    /\ pc' = PcAfter(chunk_lines')
    /\ UNCHANGED <<input, caller, pulled, accumulated_content, final_usage_info,
                   stdout, spinner, result>>

\* Ok(stream_resp) with !stream_resp.error.is_some(): eprintln!(...) only
WarnRecordLine ==
    /\ AtLine
    /\ IsDataLine(Head(chunk_lines))
    /\ LET json_data == JsonData(Head(chunk_lines))
       IN  /\ ~IsDone(json_data)
           /\ Decode(json_data).ok
           /\ TakesWarningBranch(Decode(json_data))
    /\ stderr' = Append(stderr, InternalErrorWarning)
    /\ chunk_lines' = RestAfterLine(chunk_lines)
    /\ pc' = PcAfter(chunk_lines')
    /\ UNCHANGED <<input, caller, pulled, accumulated_content, final_usage_info,
                   stdout, spinner, result>>

\* The same handler echoing no more than the first content delta of a record.
ApplyRecordLine_EchoesFirstDelta ==
    /\ AtLine
    /\ IsDataLine(Head(chunk_lines))
    /\ LET json_data == JsonData(Head(chunk_lines))
           rec == Decode(json_data)
       IN  /\ ~IsDone(json_data)
           /\ rec.ok
           /\ ~TakesWarningBranch(rec)
           /\ ~(stream_to_stdout /\ ~stdout_ok /\ Fragments(rec.choices) # <<>>)
           /\ final_usage_info' = UsageAfter(final_usage_info, rec)
           /\ accumulated_content' = ContentAfter(accumulated_content, rec)
           /\ stdout' = IF stream_to_stdout
                        THEN stdout \o Fragments(UpToFirstContent(rec.choices))
                        ELSE stdout
    /\ chunk_lines' = RestAfterLine(chunk_lines)
    /\ pc' = PcAfter(chunk_lines')
    /\ UNCHANGED <<input, caller, pulled, stderr, spinner, result>>

\* Ok(stream_resp), else branch: usage kept, every content delta appended
\* (and printed and flushed when stream_to_stdout)
ApplyRecordLine ==
    /\ AtLine
    /\ IsDataLine(Head(chunk_lines))
    /\ LET json_data == JsonData(Head(chunk_lines))
           rec == Decode(json_data)
       IN  /\ ~IsDone(json_data)
           /\ rec.ok
           /\ ~TakesWarningBranch(rec)
           /\ ~(stream_to_stdout /\ ~stdout_ok /\ Fragments(rec.choices) # <<>>)
           /\ final_usage_info' = UsageAfter(final_usage_info, rec)
           /\ accumulated_content' = ContentAfter(accumulated_content, rec)
           /\ stdout' = IF stream_to_stdout
                        THEN stdout \o Fragments(rec.choices)
                        ELSE stdout
    /\ chunk_lines' = RestAfterLine(chunk_lines)
    /\ pc' = PcAfter(chunk_lines')
    /\ UNCHANGED <<input, caller, pulled, stderr, spinner, result>>

\* The same, with stdout().flush().context("Failed to flush stdout")? failing
\* at the first content delta
FlushFailed ==
    /\ AtLine
    /\ IsDataLine(Head(chunk_lines))
    /\ LET json_data == JsonData(Head(chunk_lines))
           rec == Decode(json_data)
       IN  /\ ~IsDone(json_data)
           /\ rec.ok
           /\ ~TakesWarningBranch(rec)
           /\ stream_to_stdout /\ ~stdout_ok /\ Fragments(rec.choices) # <<>>
           /\ final_usage_info' = UsageAfter(final_usage_info, rec)
           /\ accumulated_content' =
                  accumulated_content \o Fragments(UpToFirstContent(rec.choices))
    /\ result' = ErrResult("FlushFailed", <<>>)
    /\ pc' = "done"
    /\ UNCHANGED <<input, caller, pulled, chunk_lines, stdout, stderr, spinner>>

Next ==
    \/ RequestFailed
    \/ BeginStream
    \/ NextChunk
    \/ ChunkReadFailed
    \/ ChunkNotUtf8
    \/ EndOfStream
    \/ SkipLine
    \/ DoneLine
    \/ UnparseableLine
    \/ WarnRecordLine
    \/ ApplyRecordLine
    \/ FlushFailed

\* ------------------------------------------------------ the caller at rest
NoId == "none"
NoText == [some |-> FALSE, text |-> <<>>]
SomeText(text) == [some |-> TRUE, text |-> text]

EnvKeys == {"OPENROUTER_API_KEY", "EXA_API_KEY"}

\* main is suspended in one call of handle_openrouter_response: nothing of its
\* own state moves while the call runs.
InCall ==
    /\ main_pc = "in_call"
    /\ env = EnvKeys
    /\ user_query = <<>>
    /\ requests = <<>>
    /\ search_keywords = <<>>
    /\ keyword_usage = NoUsage
    /\ exa_search_response = <<>>
    /\ search_results_summary = <<>>
    /\ exit = "running"

\* ---------------------------------------------------------------- inputs
SeqsUpTo(S, n) == UNION {[1..k -> S] : k \in 0..n}

Max(S) == CHOOSE m \in S : \A k \in S : k <= m

\* s cut after each position of cuts: Cardinality(cuts) + 1 pieces.
RECURSIVE CutAt(_, _)
CutAt(s, cuts) ==
    IF cuts = {} THEN <<s>>
    ELSE LET c == Max(cuts)
         IN  CutAt(SubSeq(s, 1, c), cuts \ {c}) \o <<SubSeq(s, c + 1, Len(s))>>

\* The ways of cutting a sequence of length n into at most k + 1 pieces, none
\* empty.
RECURSIVE SubsetsUpTo(_, _)
SubsetsUpTo(S, k) ==
    IF k = 0 THEN {{}}
    ELSE LET smaller == SubsetsUpTo(S, k - 1)
         IN  smaller \cup {c \cup {x} : c \in smaller, x \in S}

CutSets(n, k) == SubsetsUpTo(1..(n - 1), k)

\* s with item put in after its first p elements.
InsertAt(s, p, item) == SubSeq(s, 1, p) \o <<item>> \o SubSeq(s, p + 1, Len(s))

DataLine(payload) == DataPrefix \o payload

\* Records without an "error" member.
EvX == DataLine(<<"{", "x", "}">>)
EvY == DataLine(<<"{", "y", "}">>)
EvU == DataLine(<<"{", "u", "}">>)
\* Records with one.
EvXYE == DataLine(<<"{", "x", "y", "e", "}">>)
EvNUE == DataLine(<<"{", "n", "u", "e", "}">>)
EvYVE == DataLine(<<"{", "y", "v", "e", "}">>)
\* The sentinel, here sent with a CR LF line ending.
DoneLn == DataLine(<<"[DONE]", "\r">>)
\* A payload that is no record.
BadLn == DataLine(<<"{", "x">>)
\* A line without the prefix (the space is missing).
NoteLn == <<"data:", "{", "y", "e", "}">>

LineSet == {EvX, EvU, EvXYE, EvNUE, EvYVE, DoneLn, BadLn, NoteLn}

Terminated(line) == line \o <<"\n">>

\* The chunk that holds the given lines, each ended by "\n".
ChunkOfLines(ls) == Bytes(Flatten([i \in 1..Len(ls) |-> Terminated(ls[i])]))

\* Streams whose chunks hold whole lines: at most MaxLines lines in at most
\* MaxChunks chunks.
WholeLineStreams ==
    {<<>>} \cup
    { LET pieces == CutAt(ls, cuts)
      IN  [i \in 1..Len(pieces) |-> ChunkOfLines(pieces[i])] :
        <<ls, cuts>> \in UNION { {<<l, c>> : c \in CutSets(Len(l), MaxChunks - 1)} :
                                     l \in SeqsUpTo(LineSet, MaxLines) \ {<<>>} } }

\* The same with one item that is a read error, bytes that are not UTF-8, or
\* an empty chunk.
SpecialItems == {ReadError, InvalidUtf8, Bytes(<<>>)}
FaultedStreams ==
    { InsertAt(t[1], t[2], t[3]) :
        t \in { u \in WholeLineStreams \X (0..(MaxChunks - 1)) \X SpecialItems :
                    Len(u[1]) < MaxChunks /\ u[2] <= Len(u[1]) } }

\* Streams cut anywhere: at most MaxEvents records, then the sentinel, each on
\* a line of its own, cut at most MaxCuts times, between any two tokens.
EventLines == {EvX, EvY, EvYVE}
DoneLine_LF == DataLine(DoneSentinel)
DocumentOf(events) ==
    Flatten([i \in 1..Len(events) |-> Terminated(events[i])]) \o Terminated(DoneLine_LF)
Documents == {DocumentOf(events) : events \in SeqsUpTo(EventLines, MaxEvents)}
CutStreams ==
    UNION { { LET pieces == CutAt(doc, cuts)
              IN  [i \in 1..Len(pieces) |-> Bytes(pieces[i])] :
                cuts \in CutSets(Len(doc), MaxCuts) } : doc \in Documents }

\* One chunk of lines in unusual forms.
BlankLn == <<>>
IndentedLn == <<" ">> \o EvXYE
EmptyPayloadLn == DataLine(<<>>)
PaddedDoneLn == DataLine(<<" ", "[DONE]", " ">>)
PaddedRecordLn == DataLine(<<" ", "{", "x", "e", "}", " ">>)
OtherTextLn == <<"#", " ", "data:", " ", "{", "y", "e", "}">>
RepeatedLn == DataLine(<<"{", "x", "n", "x", "e", "}">>)
OddLineSet ==
    {BlankLn, IndentedLn, EmptyPayloadLn, PaddedDoneLn, PaddedRecordLn,
     OtherTextLn, RepeatedLn, EvXYE}
OddStreams == {<<ChunkOfLines(ls)>> : ls \in SeqsUpTo(OddLineSet, MaxLines)}

\* Bodies of responses that are not a success.
ErrorBodies ==
    { <<Bytes(<<"#">>)>>, <<Bytes(<<"#">>), Bytes(<<"#", "\n">>)>>, <<>>,
      <<ReadError>>, <<Bytes(<<"#">>), ReadError>>, <<InvalidUtf8>>,
      <<ChunkOfLines(<<EvXYE>>)>> }

\* What the user types: a query, a padded query, a blank line, nothing.
QueryLines ==
    { <<"q", "\n">>, <<" ", "q", " ", "q", " ", "\r", "\n">>, <<" ", "\n">>,
      <<"\n">>, <<>> }

\* What the language-model service answers to a request of main.
Responses ==
    { [status |-> 200, stream |-> <<ChunkOfLines(<<EvXYE, DoneLn>>)>>],
      [status |-> 200, stream |-> <<ChunkOfLines(<<EvX>>), ChunkOfLines(<<EvYVE, DoneLn>>)>>],
      [status |-> 200, stream |-> <<ChunkOfLines(<<EvX, DoneLn>>)>>],
      [status |-> 200, stream |-> <<ChunkOfLines(<<EvXYE>>), ReadError>>],
      [status |-> 500, stream |-> <<Bytes(<<"#">>)>>] }

\* models::ExaSearchResult
SearchResult(title, id, text) == [title |-> title, url |-> title, id |-> id, text |-> text]

ResultForms ==
    { SearchResult("p", "a", NoText),
      SearchResult("q", "a", SomeText(<<"t", "\n", " ", "\n", "t">>)),
      SearchResult("r", "b", SomeText(<<>>)),
      SearchResult("s", NoId, SomeText(<<"t">>)),
      SearchResult("w", "b", SomeText(<<" ", "\n">>)) }

SearchResults == SeqsUpTo(ResultForms, MaxResults)

\* What /contents answers: texts for some of the ids.
ContentTexts == {<<"c", "\n", "\n", "c">>, <<" ", "\n">>}
ContentsMaps == UNION {[ids -> ContentTexts] : ids \in SUBSET {"a", "b"}}

Inputs ==
    [status : {200}, stream : WholeLineStreams \cup FaultedStreams,
     stream_to_stdout : BOOLEAN, stdout_ok : {TRUE}]
    \cup [status : {200}, stream : CutStreams \cup OddStreams,
          stream_to_stdout : {FALSE}, stdout_ok : {TRUE}]
    \cup [status : {200}, stream : WholeLineStreams, stream_to_stdout : {TRUE},
          stdout_ok : {FALSE}]
    \cup [status : {204, 404, 429, 500}, stream : ErrorBodies,
          stream_to_stdout : BOOLEAN, stdout_ok : {TRUE}]

Init ==
    /\ \E inp \in Inputs :
        /\ status = inp.status
        /\ stream = inp.stream
        /\ stream_to_stdout = inp.stream_to_stdout
        /\ stdout_ok = inp.stdout_ok
    /\ pc = "start"
    /\ pulled = 0
    /\ chunk_lines = <<>>
    /\ accumulated_content = <<>>
    /\ final_usage_info = NoUsage
    /\ stdout = <<>>
    /\ stderr = <<>>
    /\ spinner = "spinning"
    /\ result = NoResult
    /\ InCall

Spec == Init /\ [][Next]_vars

\* ===================================================================
\* main and its three phases.  A request is recorded when it is sent; what
\* the service answers is the environment's choice.
\* ===================================================================
\* cleaned_text.chars().take(500)
SnippetLen == 500

Request(api, body) == [api |-> api, body |-> body]

\* Messages main and the phases write to standard output, one token each.
PromptMsg == <<"Please input what you want in the next line...", "\n">>
EmptyQueryMsg == <<"Input data is empty. Please provide a query.", "\n">>
Phase1Msg == <<"Phase 1: Generating Search Keywords", "\n">>
Phase2Msg == <<"\n", "Phase 2: Fetching Search Results (Exa)", "\n">>
Phase3Msg == <<"\n", "Phase 3: Generating Final Answer (OpenRouter)", "\n">>
NoResultsHint == <<"Try using more general keywords or check the Exa API.", "\n">>
ReceivingMsg == <<"Receiving final answer from OpenRouter...", "\n">>
FinalAnswerMsg == <<"\n", "Final Answer:", "\n">>
KeywordUsageMsg(usage) == <<"Keyword Generation Token Usage:", usage, "\n">>
FinalUsageMsg(usage) == <<"\n", "Final Answer Token Usage:", usage, "\n">>

\* format!("... User query: \"{}\"", user_query)
KeywordPrompt(query) == <<"Based on the following user query, ...">> \o query

\* format!("... User Query: \"{}\"\n\nWeb Search Results:\n{}\n\nYour Answer:", ..)
FinalPrompt(query, summary) ==
    <<"User Query:">> \o query \o <<"Web Search Results:">> \o summary
        \o <<"Your Answer:">>

\* The stream_to_stdout argument of the two calls.
KeywordsEcho == FALSE

\* A final-answer phase that has the consumer echo the answer live.
FinalAnswerEcho_Live == TRUE

FinalAnswerEcho == FALSE

\* handle_openrouter_response(response, context_msg, echo, &spinner) is
\* entered: its parameters are bound, nothing of it has run yet.
EnterConsumer(response, echo) ==
    /\ status' = response.status
    /\ stream' = response.stream
    /\ stream_to_stdout' = echo
    /\ pc' = "start"
    /\ pulled' = 0
    /\ chunk_lines' = <<>>
    /\ result' = NoResult
    /\ spinner' = "spinning"

Take(s, n) == SubSeq(s, 1, IF Len(s) < n THEN Len(s) ELSE n)

\* [..].join("\n")
RECURSIVE JoinLines(_)
JoinLines(ls) ==
    IF ls = <<>> THEN <<>>
    ELSE IF Len(ls) = 1 THEN ls[1]
    ELSE ls[1] \o <<"\n">> \o JoinLines(Tail(ls))

\* text.lines().filter(|line| !line.trim().is_empty()).collect().join("\n")
CleanedText(text) == JoinLines(SelectSeq(Lines(text), LAMBDA l : Trim(l) # <<>>))

Snippet(text) == Take(CleanedText(text), SnippetLen)

EmptyAfterCleaning == "(Content is empty or not fetched after cleaning)"

\* summary_to_display of one search result
SummaryToDisplay(r, contents_map) ==
    IF r.id # NoId /\ r.id \in DOMAIN contents_map
    THEN IF Snippet(contents_map[r.id]) = <<>>
         THEN <<"Summary", EmptyAfterCleaning, "\n">>
         ELSE <<"Summary", "\n">> \o Snippet(contents_map[r.id]) \o <<"...", "\n">>
    ELSE IF r.id # NoId /\ r.text.some /\ r.text.text # <<>>
    THEN IF Snippet(r.text.text) = <<>>
         THEN <<"Summary (from initial search)", EmptyAfterCleaning, "\n">>
         ELSE <<"Summary (from initial search)", "\n">> \o Snippet(r.text.text)
                  \o <<"...", "\n">>
    ELSE <<"Summary", "(No text content available)", "\n">>

\* The text pushed for result number i.
SummaryEntry(i, r, contents_map) ==
    <<"\n", "Result", ToString(i), "\n", "Title", r.title, "\n", "URL", r.url, "\n">>
        \o SummaryToDisplay(r, contents_map)

SummaryHeader == <<"Summary of relevant web search results:", "\n">>

\* The loop over exa_search_response.results.iter().enumerate()
SummaryOf(results, contents_map) ==
    SummaryHeader
        \o Flatten([i \in 1..Len(results) |-> SummaryEntry(i, results[i], contents_map)])

\* results.iter().filter_map(|r| r.id.clone()).collect()
IdsToFetch(results) ==
    LET with_id == SelectSeq(results, LAMBDA r : r.id # NoId)
    IN  [i \in 1..Len(with_id) |-> with_id[i].id]

\* The way main returns an error: eprintln!(...); return Err(e)
ReturnErr(message) ==
    /\ stderr' = Append(stderr, <<message>>)
    /\ exit' = "Err"
    /\ main_pc' = "exit"

consumer == <<status, stream, stream_to_stdout, pc, pulled, chunk_lines,
              accumulated_content, final_usage_info, spinner, result>>

\* env::var(..).context(..)? for either key
MissingKey ==
    /\ main_pc = "env"
    /\ env # EnvKeys
    /\ exit' = "Err"
    /\ main_pc' = "exit"
    /\ UNCHANGED <<consumer, stdout_ok, stdout, stderr, env, user_query, requests,
                   search_keywords, keyword_usage, exa_search_response,
                   search_results_summary>>

\* println!(prompt); io::stdout().flush()?
Prompt ==
    /\ main_pc = "env"
    /\ env = EnvKeys
    /\ stdout' = stdout \o PromptMsg
    /\ IF stdout_ok
       THEN main_pc' = "read" /\ exit' = exit
       ELSE main_pc' = "exit" /\ exit' = "Err"
    /\ UNCHANGED <<consumer, stdout_ok, stderr, env, user_query, requests,
                   search_keywords, keyword_usage, exa_search_response,
                   search_results_summary>>

\* A main that does not look at the query before it starts the phases.
ReadEmptyQuery_GoesOn ==
    /\ main_pc = "read"
    /\ \E line \in QueryLines :
        /\ Trim(line) = <<>>
        /\ user_query' = Trim(line)
    /\ main_pc' = "phase1"
    /\ UNCHANGED <<consumer, stdout_ok, stdout, stderr, env, requests,
                   search_keywords, keyword_usage, exa_search_response,
                   search_results_summary, exit>>

\* let _ = read_line(&mut user_query); user_query.trim(); empty: return Ok(())
ReadEmptyQuery ==
    /\ main_pc = "read"
    /\ \E line \in QueryLines :
        /\ Trim(line) = <<>>
        /\ user_query' = Trim(line)
    /\ stdout' = stdout \o EmptyQueryMsg
    /\ exit' = "Ok"
    /\ main_pc' = "exit"
    /\ UNCHANGED <<consumer, stdout_ok, stderr, env, requests, search_keywords,
                   keyword_usage, exa_search_response, search_results_summary>>

ReadQuery ==
    /\ main_pc = "read"
    /\ \E line \in QueryLines :
        /\ Trim(line) # <<>>
        /\ user_query' = Trim(line)
    /\ main_pc' = "phase1"
    /\ UNCHANGED <<consumer, stdout_ok, stdout, stderr, env, requests,
                   search_keywords, keyword_usage, exa_search_response,
                   search_results_summary, exit>>

\* Phase 1, generate_search_keywords: .send().await.context(..)? fails
KeywordRequestFailed ==
    /\ main_pc = "phase1"
    /\ stdout' = stdout \o Phase1Msg
    /\ requests' = Append(requests, Request("openrouter:keywords", KeywordPrompt(user_query)))
    /\ spinner' = "spinning"
    /\ ReturnErr("Error generating search keywords")
    /\ UNCHANGED <<status, stream, stream_to_stdout, pc, pulled, chunk_lines,
                   accumulated_content, final_usage_info, result, stdout_ok, env,
                   user_query, search_keywords, keyword_usage, exa_search_response,
                   search_results_summary>>

\* Phase 1: the request is answered and handle_openrouter_response is called
KeywordRequestSent ==
    /\ main_pc = "phase1"
    /\ stdout' = stdout \o Phase1Msg
    /\ requests' = Append(requests, Request("openrouter:keywords", KeywordPrompt(user_query)))
    /\ \E response \in Responses : EnterConsumer(response, KeywordsEcho)
    /\ main_pc' = "keywords"
    /\ UNCHANGED <<accumulated_content, final_usage_info, stdout_ok, stderr, env,
                   user_query, search_keywords, keyword_usage, exa_search_response,
                   search_results_summary, exit>>

\* One step of handle_openrouter_response, called by either phase.
ConsumerStep ==
    /\ main_pc \in {"keywords", "final"}
    /\ Next

\* A main that reports the failed keyword phase and searches all the same.
KeywordsFailed_GoesOn ==
    /\ main_pc = "keywords"
    /\ pc = "done"
    /\ result.kind = "Err"
    /\ stderr' = Append(stderr, <<"Error generating search keywords">>)
    /\ search_keywords' = user_query
    /\ main_pc' = "phase2"
    /\ UNCHANGED <<consumer, stdout_ok, stdout, env, user_query, requests,
                   keyword_usage, exa_search_response, search_results_summary,
                   exit>>

\* handle_openrouter_response(..).await? returned Err; main returns it
KeywordsFailed ==
    /\ main_pc = "keywords"
    /\ pc = "done"
    /\ result.kind = "Err"
    /\ ReturnErr("Error generating search keywords")
    /\ UNCHANGED <<consumer, stdout_ok, stdout, env, user_query, requests,
                   search_keywords, keyword_usage, exa_search_response,
                   search_results_summary>>

\* Ok((keywords_content, usage_info)); main prints the usage when there is one
KeywordsGenerated ==
    /\ main_pc = "keywords"
    /\ pc = "done"
    /\ result.kind = "Ok"
    /\ search_keywords' = result.text
    /\ keyword_usage' = result.usage
    /\ spinner' = "finished"
    /\ stdout' = IF result.usage # NoUsage
                 THEN stdout \o KeywordUsageMsg(result.usage)
                 ELSE stdout
    /\ main_pc' = "phase2"
    /\ UNCHANGED <<status, stream, stream_to_stdout, pc, pulled, chunk_lines,
                   accumulated_content, final_usage_info, result, stdout_ok, stderr,
                   env, user_query, requests, exa_search_response,
                   search_results_summary, exit>>

SearchRequest == Request("exa:search", search_keywords)

\* Phase 2, fetch_exa_search_results: the search request fails to send, is
\* answered with an error status, or its body does not parse
ExaSearchFailed ==
    /\ main_pc = "phase2"
    /\ stdout' = stdout \o Phase2Msg
    /\ requests' = Append(requests, SearchRequest)
    /\ \E failure \in {"send", "status", "parse"} :
        ReturnErr("Error fetching Exa search results")
    /\ UNCHANGED <<consumer, stdout_ok, env, user_query, search_keywords,
                   keyword_usage, exa_search_response, search_results_summary>>

\* if exa_search_response.results.is_empty() { ...; return Err(..) }
ExaNoResults ==
    /\ main_pc = "phase2"
    /\ stdout' = stdout \o Phase2Msg \o NoResultsHint
    /\ requests' = Append(requests, SearchRequest)
    /\ exa_search_response' = <<>>
    /\ ReturnErr("Error fetching Exa search results")
    /\ UNCHANGED <<consumer, stdout_ok, env, user_query, search_keywords,
                   keyword_usage, search_results_summary>>

ExaSearchCompleted ==
    /\ main_pc = "phase2"
    /\ stdout' = stdout \o Phase2Msg
    /\ requests' = Append(requests, SearchRequest)
    /\ \E results \in SearchResults :
        /\ results # <<>>
        /\ exa_search_response' = results
    /\ main_pc' = "contents"
    /\ UNCHANGED <<consumer, stdout_ok, stderr, env, user_query, search_keywords,
                   keyword_usage, search_results_summary, exit>>

\* The rest of fetch_exa_search_results once contents_map is settled: the
\* summary is built and returned, and main prints it.
ReturnSummary(contents_map) ==
    /\ search_results_summary' = SummaryOf(exa_search_response, contents_map)
    /\ stdout' = stdout \o search_results_summary' \o <<"\n">>
    /\ exa_search_response' = <<>>
    /\ main_pc' = "phase3"

NoContents == << >>

\* if !ids_to_fetch.is_empty() is false: no /contents request
ContentsSkipped ==
    /\ main_pc = "contents"
    /\ IdsToFetch(exa_search_response) = <<>>
    /\ ReturnSummary(NoContents)
    /\ UNCHANGED <<consumer, stdout_ok, stderr, env, user_query, requests,
                   search_keywords, keyword_usage, exit>>

\* A /contents failure that is returned to main as the search's failure.
ContentsFailed_Fatal ==
    /\ main_pc = "contents"
    /\ IdsToFetch(exa_search_response) # <<>>
    /\ requests' = Append(requests, Request("exa:contents", IdsToFetch(exa_search_response)))
    /\ ReturnErr("Error fetching Exa search results")
    /\ UNCHANGED <<consumer, stdout_ok, stdout, env, user_query, search_keywords,
                   keyword_usage, exa_search_response, search_results_summary>>

\* The /contents request fails to send, is answered with an error status, or
\* its body does not parse: a message on standard error, contents_map empty
ContentsFailed ==
    /\ main_pc = "contents"
    /\ IdsToFetch(exa_search_response) # <<>>
    /\ requests' = Append(requests, Request("exa:contents", IdsToFetch(exa_search_response)))
    /\ \E failure \in {"Failed to send request to Exa /contents API",
                       "Exa /contents API request failed (status)",
                       "Failed to parse Exa /contents JSON response"} :
        stderr' = Append(stderr, <<failure>>)
    /\ ReturnSummary(NoContents)
    /\ UNCHANGED <<consumer, stdout_ok, env, user_query, search_keywords,
                   keyword_usage, exit>>

\* for content_result in contents_response.results { contents_map.insert(..) }
ContentsFetched ==
    /\ main_pc = "contents"
    /\ IdsToFetch(exa_search_response) # <<>>
    /\ requests' = Append(requests, Request("exa:contents", IdsToFetch(exa_search_response)))
    /\ \E contents_map \in ContentsMaps : ReturnSummary(contents_map)
    /\ UNCHANGED <<consumer, stdout_ok, stderr, env, user_query, search_keywords,
                   keyword_usage, exit>>

FinalRequest == Request("openrouter:final", FinalPrompt(user_query, search_results_summary))

\* Phase 3, generate_final_answer: .send().await.context(..)? fails
FinalRequestFailed ==
    /\ main_pc = "phase3"
    /\ stdout' = stdout \o Phase3Msg
    /\ requests' = Append(requests, FinalRequest)
    /\ spinner' = "spinning"
    /\ ReturnErr("Error generating final answer")
    /\ UNCHANGED <<status, stream, stream_to_stdout, pc, pulled, chunk_lines,
                   accumulated_content, final_usage_info, result, stdout_ok, env,
                   user_query, search_keywords, keyword_usage, exa_search_response,
                   search_results_summary>>

\* Phase 3: the request is answered; println!("Receiving ..."), then
\* handle_openrouter_response is called
FinalRequestSent ==
    /\ main_pc = "phase3"
    /\ stdout' = stdout \o Phase3Msg \o ReceivingMsg
    /\ requests' = Append(requests, FinalRequest)
    /\ \E response \in Responses : EnterConsumer(response, FinalAnswerEcho)
    /\ main_pc' = "final"
    /\ UNCHANGED <<accumulated_content, final_usage_info, stdout_ok, stderr, env,
                   user_query, search_keywords, keyword_usage, exa_search_response,
                   search_results_summary, exit>>

FinalAnswerFailed ==
    /\ main_pc = "final"
    /\ pc = "done"
    /\ result.kind = "Err"
    /\ ReturnErr("Error generating final answer")
    /\ UNCHANGED <<consumer, stdout_ok, stdout, env, user_query, requests,
                   search_keywords, keyword_usage, exa_search_response,
                   search_results_summary>>

\* println!("{}", final_answer)
MainPrintsAnswer(final_answer) == final_answer \o <<"\n">>

\* Ok((final_answer, final_usage)) => the heading, the answer, the usage; Ok(())
FinalAnswerReceived ==
    /\ main_pc = "final"
    /\ pc = "done"
    /\ result.kind = "Ok"
    /\ spinner' = "finished"
    /\ stdout' = stdout \o FinalAnswerMsg \o MainPrintsAnswer(result.text)
                     \o (IF result.usage # NoUsage
                         THEN FinalUsageMsg(result.usage)
                         ELSE <<>>)
    /\ exit' = "Ok"
    /\ main_pc' = "exit"
    /\ UNCHANGED <<status, stream, stream_to_stdout, pc, pulled, chunk_lines,
                   accumulated_content, final_usage_info, result, stdout_ok, stderr,
                   env, user_query, requests, search_keywords, keyword_usage,
                   exa_search_response, search_results_summary>>

MainNext ==
    \/ MissingKey
    \/ Prompt
    \/ ReadEmptyQuery
    \/ ReadQuery
    \/ KeywordRequestFailed
    \/ KeywordRequestSent
    \/ ConsumerStep
    \/ KeywordsFailed
    \/ KeywordsGenerated
    \/ ExaSearchFailed
    \/ ExaNoResults
    \/ ExaSearchCompleted
    \/ ContentsSkipped
    \/ ContentsFailed
    \/ ContentsFetched
    \/ FinalRequestFailed
    \/ FinalRequestSent
    \/ FinalAnswerFailed
    \/ FinalAnswerReceived

MainInit ==
    /\ env \in SUBSET EnvKeys
    /\ stdout_ok \in BOOLEAN
    /\ main_pc = "env"
    /\ user_query = <<>>
    /\ requests = <<>>
    /\ search_keywords = <<>>
    /\ keyword_usage = NoUsage
    /\ exa_search_response = <<>>
    /\ search_results_summary = <<>>
    /\ exit = "running"
    /\ status = 200
    /\ stream = <<>>
    /\ stream_to_stdout = FALSE
    /\ pc = "idle"
    /\ pulled = 0
    /\ chunk_lines = <<>>
    /\ accumulated_content = <<>>
    /\ final_usage_info = NoUsage
    /\ stdout = <<>>
    /\ stderr = <<>>
    /\ spinner = "none"
    /\ result = NoResult

Main == MainInit /\ [][MainNext]_vars

\* ===================================================================
\* Properties.  The helpers below read the response as the wire protocol
\* describes it; they do not look at the consumer's variables.
\* ===================================================================
SuccessStatus == status \in 200..299

AllBytes(items) == \A i \in 1..Len(items) : items[i].kind = "bytes"

FatalKinds == {"read_error", "invalid_utf8"}

\* Flushing the echoed text cannot fail in this run.
SinkHealthy == stream_to_stdout => stdout_ok

HasPrefix(line) == Len(line) >= 2 /\ line[1] = "data:" /\ line[2] = " "

Payload(line) == SubSeq(line, 3, Len(line))

IsSentinelLine(line) == HasPrefix(line) /\ Trim(Payload(line)) = <<"[DONE]">>

\* The lines of a chunk that come before its first sentinel line.
RECURSIVE BeforeSentinel(_)
BeforeSentinel(ls) ==
    IF ls = <<>> \/ IsSentinelLine(Head(ls)) THEN <<>>
    ELSE <<Head(ls)>> \o BeforeSentinel(Tail(ls))

IsEventLine(line) ==
    HasPrefix(line) /\ ~IsSentinelLine(line) /\ Decode(Payload(line)).ok

IsUnparseableLine(line) ==
    HasPrefix(line) /\ ~IsSentinelLine(line) /\ ~Decode(Payload(line)).ok

\* The records of one chunk, in line order: every event line up to the
\* chunk's sentinel line.
EventsOfChunk(text) ==
    LET ls == SelectSeq(BeforeSentinel(Lines(text)), IsEventLine)
    IN  [i \in 1..Len(ls) |-> Decode(Payload(ls[i]))]

\* The records of the whole stream, in arrival order.
RECURSIVE EventsOf(_)
EventsOf(items) ==
    IF items = <<>> THEN <<>>
    ELSE (IF Head(items).kind = "bytes" THEN EventsOfChunk(Head(items).text) ELSE <<>>)
             \o EventsOf(Tail(items))

\* The content deltas of a sequence of records, in order.
TextOf(recs) == Flatten([i \in 1..Len(recs) |-> Flatten(recs[i].choices)])

\* The usage of the last record that carries one.
RECURSIVE LastUsage(_)
LastUsage(recs) ==
    IF recs = <<>> THEN NoUsage
    ELSE IF recs[Len(recs)].usage # NoUsage THEN recs[Len(recs)].usage
    ELSE LastUsage(SubSeq(recs, 1, Len(recs) - 1))

ContentOnly(rec) ==
    /\ rec.usage = NoUsage
    /\ ~rec.error
    /\ rec.choices # <<>>
    /\ \A i \in 1..Len(rec.choices) : rec.choices[i] # NoContent

\* A text that is N content-only events and then the sentinel, one per line.
WellFormedContentStream(text) ==
    LET ls == Lines(text)
    IN  /\ ls # <<>>
        /\ IsSentinelLine(ls[Len(ls)])
        /\ \A i \in 1..(Len(ls) - 1) :
               IsEventLine(ls[i]) /\ ContentOnly(Decode(Payload(ls[i])))

EventTexts(text) ==
    LET ls == Lines(text)
    IN  TextOf([i \in 1..(Len(ls) - 1) |-> Decode(Payload(ls[i]))])

\* C1: for every way of cutting into chunks a well-formed stream of N
\* content-only events followed by the sentinel line, a success status returns
\* the concatenation of the N event texts in arrival order, and no usage.
C1_ConcatenatesEventTexts ==
    (/\ pc = "done"
     /\ SuccessStatus
     /\ AllBytes(stream)
     /\ SinkHealthy
     /\ WellFormedContentStream(BodyText(stream)))
    => result = OkResult(EventTexts(BodyText(stream)), NoUsage)

\* C2: the usage returned is the usage of the last decoded event that carried
\* one, in arrival order across all chunks; it is absent only if no event
\* carried usage.
C2_LastUsageWins ==
    (pc = "done" /\ result.kind = "Ok")
    => result.usage = LastUsage(EventsOf(stream))

\* C3: on a status that is not a success the call returns an error holding the
\* body text (the placeholder when the body cannot be read), asks the byte
\* stream for no chunk and applies no content and no usage.
C3_RequestFailedTouchesNothing ==
    ~SuccessStatus =>
        /\ pulled = 0
        /\ accumulated_content = <<>>
        /\ final_usage_info = NoUsage
        /\ stdout = <<>>
        /\ pc \in {"start", "done"}
        /\ pc = "done" =>
               /\ result.kind = "Err"
               /\ result.error = "RequestFailed"
               /\ result.body = IF \E i \in 1..Len(stream) : stream[i].kind = "read_error"
                                THEN <<"Unknown error reading response body">>
                                ELSE BodyText(stream)

C3_Witness ==
    /\ pc = "done"
    /\ status = 429
    /\ result.kind = "Err"
    /\ result.body = <<"#", "#", "\n">>

\* C4: a chunk read error, or a chunk that is not UTF-8, ends consumption at
\* that chunk: the call has returned an error, no later chunk is pulled, the
\* chunk is not asked for again and no (text, usage) outcome is returned.
C4_FatalChunkEndsConsumption ==
    \A k \in 1..pulled :
        stream[k].kind \in FatalKinds =>
            /\ pc = "done"
            /\ pulled = k
            /\ result.kind = "Err"
            /\ result.error = IF stream[k].kind = "read_error"
                              THEN "ChunkReadFailed"
                              ELSE "Encoding"

C4_Witness ==
    /\ pc = "done"
    /\ result.kind = "Err"
    /\ pulled = 2
    /\ stream[2].kind = "invalid_utf8"
    /\ Len(stream) = 3
    /\ accumulated_content # <<>>

HasUnparseableLine(items) ==
    \E i \in 1..Len(items) :
        /\ items[i].kind = "bytes"
        /\ \E j \in 1..Len(BeforeSentinel(Lines(items[i].text))) :
               IsUnparseableLine(BeforeSentinel(Lines(items[i].text))[j])

HasSentinelLine(items) ==
    \E i \in 1..Len(items) :
        /\ items[i].kind = "bytes"
        /\ \E j \in 1..Len(Lines(items[i].text)) :
               IsSentinelLine(Lines(items[i].text)[j])

IsSuffix(s, t) ==
    Len(s) <= Len(t) /\ SubSeq(t, Len(t) - Len(s) + 1, Len(t)) = s

\* The lines the protocol has the consumer visit, in arrival order.
RECURSIVE VisitedLines(_)
VisitedLines(items) ==
    IF items = <<>> THEN <<>>
    ELSE (IF Head(items).kind = "bytes"
          THEN BeforeSentinel(Lines(Head(items).text))
          ELSE <<>>) \o VisitedLines(Tail(items))

\* The records on the lines that follow the first unparseable line.
EventsAfterUnparseable(items) ==
    LET ls == VisitedLines(items)
        p == CHOOSE i \in 1..Len(ls) :
                 /\ IsUnparseableLine(ls[i])
                 /\ \A j \in 1..(i - 1) : ~IsUnparseableLine(ls[j])
        later == SelectSeq(SubSeq(ls, p + 1, Len(ls)), IsEventLine)
    IN  [i \in 1..Len(later) |-> Decode(Payload(later[i]))]

\* C5: a data line whose payload fails decoding never aborts the run: the call
\* ends in success when the stream is exhausted, and every well-formed event
\* on a later line (same chunk or a later chunk) is applied: the text returned
\* ends with their texts, and their last usage, if any, is the one returned.
C5_EventsAfterUnparseableLineApplied ==
    (/\ pc = "done"
     /\ SuccessStatus
     /\ AllBytes(stream)
     /\ SinkHealthy
     /\ HasUnparseableLine(stream))
    => /\ result.kind = "Ok"
       /\ IsSuffix(TextOf(EventsAfterUnparseable(stream)), result.text)
       /\ LastUsage(EventsAfterUnparseable(stream)) # NoUsage =>
              result.usage = LastUsage(EventsAfterUnparseable(stream))

NoContentInStream ==
    \A i \in 1..Len(stream) : \A j \in 1..Len(stream[i].text) :
        stream[i].text[j] \notin {"x", "y"}

NoUsageInStream ==
    \A i \in 1..Len(stream) : \A j \in 1..Len(stream[i].text) :
        stream[i].text[j] \notin {"u", "v"}

\* C6: on a success status, a stream of zero chunks, or any stream (read to
\* its end) in which no content delta is applied, returns success with the
\* empty text, and no usage when none was seen; never an error.
C6_NoContentIsEmptySuccess ==
    (pc = "done" /\ SuccessStatus /\ AllBytes(stream)) =>
        /\ stream = <<>> => result = OkResult(<<>>, NoUsage)
        /\ (NoContentInStream \/ accumulated_content = <<>>) =>
               /\ result.kind = "Ok"
               /\ result.text = <<>>
               /\ result.usage = final_usage_info
               /\ NoUsageInStream => result.usage = NoUsage

C6_Witness ==
    /\ pc = "done"
    /\ SuccessStatus
    /\ Len(stream) = 2
    /\ pulled = 2
    /\ stderr # <<>>
    /\ result = OkResult(<<>>, NoUsage)

\* C7: a line that does not start with the exact prefix changes nothing: the
\* step over it leaves text, usage, both outputs and the result as they are
\* and goes on to the next line, as if the line were not in the chunk.
C7_OtherLinesChangeNothing ==
    [][(pc = "lines" /\ chunk_lines # <<>> /\ ~HasPrefix(Head(chunk_lines))) =>
          /\ accumulated_content' = accumulated_content
          /\ final_usage_info' = final_usage_info
          /\ stdout' = stdout
          /\ stderr' = stderr
          /\ result' = result
          /\ pulled' = pulled
          /\ chunk_lines' = Tail(chunk_lines)
          /\ pc' = IF Tail(chunk_lines) = <<>> THEN "next" ELSE "lines"]_vars

C7_Witness ==
    /\ pc = "done"
    /\ stream = <<ChunkOfLines(<<NoteLn, EvXYE>>)>>
    /\ stderr = <<>>
    /\ result = OkResult(<<"x", "y">>, NoUsage)

\* The first chunk that holds a sentinel line.
SentinelChunk(items) ==
    CHOOSE i \in 1..Len(items) :
        /\ HasSentinelLine(<<items[i]>>)
        /\ \A j \in 1..(i - 1) : ~HasSentinelLine(<<items[j]>>)

\* C8: a sentinel line stops the lines of its own chunk only: events on later
\* lines of that chunk are never applied (the text holds no more than the
\* events before the sentinel and those of the later chunks), while the events
\* of every later chunk are applied (the text ends with their texts).
C8_SentinelEndsItsChunkOnly ==
    (/\ pc = "done"
     /\ SuccessStatus
     /\ AllBytes(stream)
     /\ SinkHealthy
     /\ HasSentinelLine(stream))
    => LET i == SentinelChunk(stream)
           upTo == TextOf(EventsOf(SubSeq(stream, 1, i)))
           later == TextOf(EventsOf(SubSeq(stream, i + 1, Len(stream))))
       IN  /\ result.kind = "Ok"
           /\ IsSuffix(later, result.text)
           /\ Len(result.text) <= Len(upTo) + Len(later)

\* C9: when the byte stream is exhausted without a fatal error the call
\* returns success with the text and usage accumulated so far, whether or not
\* a sentinel line was seen.
C9_ExhaustedStreamIsSuccess ==
    (pc = "done" /\ SuccessStatus /\ AllBytes(stream) /\ SinkHealthy) =>
        /\ pulled = Len(stream)
        /\ result = OkResult(accumulated_content, final_usage_info)

C9_Witness ==
    /\ pc = "done"
    /\ SuccessStatus
    /\ ~HasSentinelLine(stream)
    /\ result.kind = "Ok"
    /\ result.text # <<>>
    /\ result.usage # NoUsage

\* Chunk k ends, and chunk k + 1 begins, inside the text of one event line.
SplitAfter(k) ==
    /\ k \in 1..(Len(stream) - 1)
    /\ stream[k].kind = "bytes"
    /\ stream[k + 1].kind = "bytes"
    /\ LET a == stream[k].text
           b == stream[k + 1].text
       IN  /\ a # <<>>
           /\ a[Len(a)] # "\n"
           /\ b # <<>>
           /\ Trim(Lines(b)[1]) # <<>>
           /\ IsEventLine(StripLineEnding(Lines(a)[Len(Lines(a))]
                                              \o SubSeq(b, 1, FirstPieceLen(b))))

\* The line about to be visited is one of the two fragments of a split line.
AtFragment ==
    /\ pc = "lines"
    /\ chunk_lines # <<>>
    /\ \/ Len(chunk_lines) = 1 /\ SplitAfter(pulled)
       \/ /\ pulled >= 2
          /\ SplitAfter(pulled - 1)
          /\ Len(chunk_lines) = Len(Lines(stream[pulled].text))

\* C10: each chunk is split into lines on its own and nothing is carried over:
\* when one event line is split across two consecutive chunks, neither
\* fragment adds content or usage or ends the call, and the run goes on to
\* success.
C10_SplitLineContributesNothing ==
    /\ [][AtFragment =>
            /\ accumulated_content' = accumulated_content
            /\ final_usage_info' = final_usage_info
            /\ stdout' = stdout
            /\ result' = result
            /\ pc' \in {"lines", "next"}]_vars
    /\ []((/\ pc = "done"
           /\ SuccessStatus
           /\ AllBytes(stream)
           /\ SinkHealthy
           /\ \E k \in 1..Len(stream) : SplitAfter(k)) => result.kind = "Ok")

C10_Witness ==
    /\ pc = "done"
    /\ Len(stream) = 2
    /\ SplitAfter(1)
    /\ BodyText(stream) = DocumentOf(<<EvYVE>>)
    /\ Decode(Payload(EvYVE)).error
    /\ result = OkResult(<<>>, NoUsage)

\* ===================================================================
\* Properties of main and its phases.
\* ===================================================================
ConsumingKeywords == main_pc = "keywords"
ConsumingFinalAnswer == main_pc = "final"

\* C11: live echo of content is on while the final-answer phase consumes its
\* response and off while the keyword phase consumes its response.
C11_EchoOnlyForFinalAnswer ==
    /\ ConsumingFinalAnswer => stream_to_stdout
    /\ ConsumingKeywords => ~stream_to_stdout

\* ===================================================================
\* Properties of the consumer, continued.
\* ===================================================================
\* The line about to be visited decodes to a record with an error object.
ErrorRecordAhead ==
    /\ pc = "lines"
    /\ chunk_lines # <<>>
    /\ IsEventLine(Head(chunk_lines))
    /\ Decode(Payload(Head(chunk_lines))).error

HasErrorRecord(items) ==
    \E i \in 1..Len(EventsOf(items)) : EventsOf(items)[i].error

\* C12: a decoded record that carries an error object does not stop
\* processing: the step over it applies its usage (if any) and its content
\* deltas, returns nothing and goes on to the next line, and the stream is
\* still read to its end.
C12_ErrorRecordStillApplied ==
    /\ [][(ErrorRecordAhead /\ SinkHealthy) =>
            LET rec == Decode(Payload(Head(chunk_lines)))
            IN  /\ final_usage_info' =
                       IF rec.usage # NoUsage THEN rec.usage ELSE final_usage_info
                /\ accumulated_content' = accumulated_content \o TextOf(<<rec>>)
                /\ result' = result
                /\ chunk_lines' = Tail(chunk_lines)
                /\ pc' \in {"lines", "next"}]_vars
    /\ []((/\ pc = "done"
           /\ SuccessStatus
           /\ AllBytes(stream)
           /\ SinkHealthy
           /\ HasErrorRecord(stream))
          => pulled = Len(stream) /\ result.kind = "Ok")

C12_Witness ==
    /\ pc = "done"
    /\ stream = <<ChunkOfLines(<<EvYVE>>), ChunkOfLines(<<EvXYE>>)>>
    /\ result = OkResult(<<"y", "x", "y">>, "v")

\* C13: whenever a decoded record carries an error object, a warning is
\* written to standard error for that record.
C13_ErrorRecordIsLogged ==
    [][ErrorRecordAhead => Len(stderr') = Len(stderr) + 1]_vars

IsPrefix(s, t) == Len(s) <= Len(t) /\ SubSeq(t, 1, Len(s)) = s

\* The content texts written in a line, in the order they stand in it.
ContentTokensOf(line) == SelectSeq(line, LAMBDA c : c \in {"x", "y"})

\* C14: the accumulated text is append-only: every step leaves the old value
\* a prefix of the new one, and a processed line either leaves the text alone
\* or appends all content deltas of its record in choice order, none left
\* out, none merged with an equal one.
C14_TextIsAppendOnly ==
    [][/\ IsPrefix(accumulated_content, accumulated_content')
       /\ (pc = "lines" /\ chunk_lines # <<>> /\ pc' # "done") =>
              \/ accumulated_content' = accumulated_content
              \/ accumulated_content' =
                     accumulated_content \o ContentTokensOf(Head(chunk_lines))]_vars

C14_Witness ==
    /\ pc = "done"
    /\ stream = <<ChunkOfLines(<<RepeatedLn, EvXYE>>)>>
    /\ result.text = <<"x", "x", "x", "y">>

\* Between two lines, or between two chunks.
AtLineBoundary == pc \in {"lines", "next"}

\* What the echo has written: the text on the sink after the newline that
\* opens the streaming.
EchoedText == IF stdout = <<>> THEN <<>> ELSE Tail(stdout)

\* C15: with live echo on, every applied content delta has been written to
\* the sink (and the sink flushed) before the next line is processed: at every
\* line boundary the text echoed so far equals the accumulated text so far.
C15_EchoKeepsUpWithText ==
    (stream_to_stdout /\ AtLineBoundary) =>
        /\ stdout # <<>>
        /\ Head(stdout) = "\n"
        /\ EchoedText = accumulated_content

C15_Witness ==
    /\ stream_to_stdout
    /\ pc = "lines"
    /\ chunk_lines # <<>>
    /\ accumulated_content = <<"x", "y">>
    /\ stdout = <<"\n", "x", "y">>

Returned == result.kind \in {"Ok", "Err"}

\* A bound on the lines of the given chunks, counting each chunk once more:
\* a chunk has no more lines than it has characters.
RECURSIVE WorkIn(_)
WorkIn(items) ==
    IF items = <<>> THEN 0
    ELSE 1 + Len(Head(items).text) + WorkIn(Tail(items))

\* A bound on the steps the call can still take: 0 once it has returned.
StepsLeft ==
    IF pc = "done" THEN 0
    ELSE (IF pc = "start" THEN 2 ELSE 1)
             + WorkIn(SubSeq(stream, pulled + 1, Len(stream)))
             + Len(chunk_lines)

\* The call can take a step.  For a chunk that byte_stream.next() yields the
\* loop body runs whatever the chunk holds; every other step is one the state
\* enables.
CanStep ==
    \/ pc = "next" /\ pulled < Len(stream) /\ stream[pulled + 1].kind = "bytes"
    \/ ENABLED (\/ RequestFailed \/ BeginStream
                \/ ChunkReadFailed \/ ChunkNotUtf8 \/ EndOfStream
                \/ SkipLine \/ DoneLine \/ UnparseableLine
                \/ WarnRecordLine \/ ApplyRecordLine \/ FlushFailed)

\* C16: for every finite response the call terminates with exactly one
\* result: every step lowers a natural-number bound on the steps left, a call
\* that has not returned can always take a step and has no result yet, what
\* is returned is one success or one error, and once the call has returned
\* nothing changes.
C16_TerminatesWithOneResult ==
    /\ [][StepsLeft' < StepsLeft]_vars
    /\ [][Returned => result' = result /\ pc' = "done"]_vars
    /\ [](pc # "done" => CanStep /\ result = NoResult)
    /\ [](pc = "done" => Returned /\ StepsLeft = 0)
    /\ [](result.kind = "Ok" => result.error = "" /\ result.body = <<>>)
    /\ [](result.kind = "Err" =>
              result.error # "" /\ result.text = <<>> /\ result.usage = NoUsage)

C16_Witness ==
    /\ pc = "done"
    /\ Len(stream) = MaxChunks
    /\ pulled = MaxChunks
    /\ StepsLeft = 0
    /\ result.kind = "Ok"
    /\ result.text # <<>>

\* ===================================================================
\* Properties of main and its phases, continued.
\* ===================================================================
\* The phase a request belongs to.
PhaseOfRequest(request) ==
    CASE request.api = "openrouter:keywords" -> 1
      [] request.api = "exa:search" -> 2
      [] request.api = "exa:contents" -> 2
      [] request.api = "openrouter:final" -> 3

Sent(api) == \E i \in 1..Len(requests) : requests[i].api = api

SentOnce(api) ==
    \A i, j \in 1..Len(requests) :
        requests[i].api = api /\ requests[j].api = api => i = j

\* A phase has ended in an error that main has not yet returned.
PhaseFailed ==
    /\ main_pc \in {"keywords", "final"}
    /\ pc = "done"
    /\ result.kind = "Err"

\* C17: the phases run in the order keywords, search, final answer, each
\* started only after the one before succeeded; the search is sent exactly the
\* text the keyword phase accumulated; an error in a phase makes main return
\* an error with no further request sent, and after main has returned nothing
\* is sent.
C17_PhasesInOrder ==
    /\ [](\A i, j \in 1..Len(requests) :
              i < j => PhaseOfRequest(requests[i]) <= PhaseOfRequest(requests[j]))
    /\ [](\A api \in {"openrouter:keywords", "exa:search", "exa:contents",
                       "openrouter:final"} : SentOnce(api))
    /\ [](requests # <<>> => requests[1].api = "openrouter:keywords")
    /\ []((Sent("exa:search") /\ ~Sent("openrouter:final")) =>
              /\ pc = "done"
              /\ result.kind = "Ok"
              /\ \A i \in 1..Len(requests) :
                     requests[i].api = "exa:search" =>
                         requests[i].body = accumulated_content)
    /\ [](Sent("openrouter:final") =>
              /\ Sent("exa:search")
              /\ search_results_summary # <<>>
              /\ exa_search_response = <<>>)
    /\ [][PhaseFailed => exit' = "Err" /\ requests' = requests]_vars
    /\ [][exit # "running" => requests' = requests /\ exit' = exit]_vars
    /\ [](exit = "Ok" => user_query = <<>> \/ Sent("openrouter:final"))

C17_Witness ==
    /\ exit = "Err"
    /\ Len(requests) = 2
    /\ requests[2] = Request("exa:search", <<"x", "y">>)
    /\ accumulated_content = <<"x", "y">>

\* The content texts of the language model's answers found on standard output.
AnswerOnStdout == SelectSeq(stdout, LAMBDA c : c \in {"x", "y"})

\* C18: on every successful run the final answer is on standard output
\* exactly once: not echoed during consumption and then printed again by main,
\* and not left out.
C18_AnswerPrintedOnce ==
    (exit = "Ok" /\ Sent("openrouter:final")) =>
        /\ result.kind = "Ok"
        /\ AnswerOnStdout = result.text

C18_Witness ==
    /\ exit = "Ok"
    /\ Sent("openrouter:final")
    /\ result.text = <<"x", "y">>
    /\ AnswerOnStdout = <<"x", "y">>

\* The tokens of a text that stand right after the given label.
After(label, text) ==
    LET at == SelectSeq([i \in 1..Len(text) |-> i],
                        LAMBDA i : i < Len(text) /\ text[i] = label)
    IN  [k \in 1..Len(at) |-> text[at[k] + 1]]

OnStdout(message) == \E i \in 1..Len(stdout) : stdout[i] = message

OnStderr(message) == \E i \in 1..Len(stderr) : stderr[i] = <<message>>

ContentsFailureMessages ==
    {"Failed to send request to Exa /contents API",
     "Exa /contents API request failed (status)",
     "Failed to parse Exa /contents JSON response"}

\* C19: in the search phase an empty result list is fatal: main returns an
\* error, no summary is returned and the final-answer phase never runs; a
\* failed /contents call is not: whatever /contents does, the phase returns a
\* summary with one entry per search result, in result order, and main goes on
\* to the final-answer phase.
C19_EmptyResultsFatalContentsFailureNot ==
    /\ [](OnStdout(NoResultsHint[1]) =>
              /\ exit = "Err"
              /\ main_pc = "exit"
              /\ search_results_summary = <<>>
              /\ ~Sent("exa:contents")
              /\ ~Sent("openrouter:final"))
    /\ [](main_pc = "contents" => exa_search_response # <<>>)
    /\ [][main_pc = "contents" =>
            /\ main_pc' = "phase3"
            /\ exit' = "running"
            /\ After("Title", search_results_summary') =
                   [i \in 1..Len(exa_search_response) |-> exa_search_response[i].title]
            /\ After("Result", search_results_summary') =
                   [i \in 1..Len(exa_search_response) |-> ToString(i)]]_vars
    /\ [](\A message \in ContentsFailureMessages :
              OnStderr(message) => search_results_summary # <<>>)

C19_Witness ==
    /\ main_pc = "phase3"
    /\ OnStderr("Exa /contents API request failed (status)")
    /\ After("Title", search_results_summary) = <<"q", "p">>
    /\ After("Result", search_results_summary) = <<"1", "2">>

\* C20: a query that is empty after trimming makes main return success with
\* no phase started: no request is sent to either service, and the consumer is
\* never called.
C20_EmptyQuerySendsNothing ==
    /\ [][(main_pc = "read" /\ user_query' = <<>>) =>
            /\ exit' = "Ok"
            /\ main_pc' = "exit"
            /\ requests' = <<>>
            /\ pc' = "idle"]_vars
    /\ [](requests # <<>> => user_query # <<>>)
    /\ [](pc # "idle" => user_query # <<>>)
    /\ []((main_pc = "exit" /\ OnStdout(EmptyQueryMsg[1])) =>
              exit = "Ok" /\ requests = <<>> /\ pc = "idle")

C20_Witness ==
    /\ main_pc = "exit"
    /\ exit = "Ok"
    /\ user_query = <<>>
    /\ requests = <<>>
    /\ OnStdout(EmptyQueryMsg[1])

====
